---- MODULE Spec2Model ----
(***************************************************************************)
(* Model of the camera driver (src/main.py): the main() coroutine with its *)
(* primary start, auto-detect fallback, shutdown wait and teardown, the    *)
(* _list_cameras probes, _parse_camera_id, and the asyncio signal handler. *)
(*                                                                         *)
(* Python strings are sequences of one-character strings, so that int()    *)
(* and str() are computed and not assumed.  A camera id is a record        *)
(* [tag, num, str]: tag "int" carries num, tag "str" carries str.          *)
(***************************************************************************)
EXTENDS Integers, Sequences, FiniteSets, TLC

\* ---------------------------------------------------------------- bounds
\* signals delivered to the process in one run
MaxSignals == 2
\* capture indices 0 .. MaxVideoIndex - 1 have a device that may open
MaxVideoIndex == 2
\* devices listed by the RealSense context in one enumeration
MaxDepthDevices == 2

\* length of the strings _parse_camera_id is applied to on its own
MaxLen == 3

\* ------------------------------------------------------ program constants
\* range(10) of the CV2 probe
NumIndices == 10
\* sys.exit(1)
ExitStatus == 1

\* ----------------------------------------------------------------- strings
DigitChars == {"0", "1", "2", "3", "4", "5", "6", "7", "8", "9"}

DigitVal(c) ==
  CASE c = "0" -> 0 [] c = "1" -> 1 [] c = "2" -> 2 [] c = "3" -> 3
    [] c = "4" -> 4 [] c = "5" -> 5 [] c = "6" -> 6 [] c = "7" -> 7
    [] c = "8" -> 8 [] c = "9" -> 9

DigitChar(n) ==
  CASE n = 0 -> "0" [] n = 1 -> "1" [] n = 2 -> "2" [] n = 3 -> "3"
    [] n = 4 -> "4" [] n = 5 -> "5" [] n = 6 -> "6" [] n = 7 -> "7"
    [] n = 8 -> "8" [] n = 9 -> "9"

\* str(index) of a non-negative int
RECURSIVE Str(_)
Str(n) == IF n < 10 THEN <<DigitChar(n)>>
          ELSE Append(Str(n \div 10), DigitChar(n % 10))

\* int(s): surrounding whitespace is stripped, one optional sign, then
\* decimal digits that may be grouped by single underscores
RECURSIVE LStrip(_)
LStrip(s) == IF s # <<>> /\ Head(s) = " " THEN LStrip(Tail(s)) ELSE s

RECURSIVE RStrip(_)
RStrip(s) == IF s # <<>> /\ s[Len(s)] = " "
             THEN RStrip(SubSeq(s, 1, Len(s) - 1)) ELSE s

Strip(s) == RStrip(LStrip(s))

Unsigned(s) == IF s # <<>> /\ Head(s) \in {"+", "-"} THEN Tail(s) ELSE s

IsDigits(d) ==
  /\ d # <<>>
  /\ d[1] \in DigitChars
  /\ d[Len(d)] \in DigitChars
  /\ \A i \in 1..Len(d) :
       /\ d[i] \in DigitChars \cup {"_"}
       /\ (d[i] = "_" => d[i + 1] # "_")

\* an int() that accepts no sign
IsIntLiteral_NoSign(s) == IsDigits(Strip(s))

\* int(s) does not raise ValueError
IsIntLiteral(s) == IsDigits(Unsigned(Strip(s)))

RECURSIVE DigitsValue(_, _)
DigitsValue(d, acc) ==
  IF d = <<>> THEN acc
  ELSE IF Head(d) = "_" THEN DigitsValue(Tail(d), acc)
  ELSE DigitsValue(Tail(d), acc * 10 + DigitVal(Head(d)))

IntOf(s) ==
  LET t == Strip(s)
  IN  (IF Head(t) = "-" THEN -1 ELSE 1) * DigitsValue(Unsigned(t), 0)

\* the two shapes of `int | str`
IntId(n) == [tag |-> "int", num |-> n, str |-> <<>>]
StrId(s) == [tag |-> "str", num |-> 0, str |-> s]
NoId == [tag |-> "none", num |-> 0, str |-> <<>>]

\* _parse_camera_id
ParseCameraId(video_device) ==
  IF IsIntLiteral(video_device) THEN IntId(IntOf(video_device))
  ELSE StrId(video_device)

\* ------------------------------------------------------------ environment
\* values of CYBERWAVE_METADATA_VIDEO_DEVICE: "0" (the default),
\* "/dev/video5", "-1", "012345"
VideoDevices ==
  { <<"0">>,
    <<"/", "d", "e", "v", "/", "v", "i", "d", "e", "o", "5">>,
    <<"-", "1">>,
    <<"0", "1", "2", "3", "4", "5">> }

\* what a RealSense device reports: a serial number (possibly empty) and a name
DepthDevices ==
  { [serial |-> <<"0", "1", "2", "3", "4", "5">>, name |-> <<"D", "4", "5", "5">>],
    [serial |-> <<>>, name |-> <<"D", "4", "3", "5">>] }

\* the lists rs.context().devices can hold
DeviceLists ==
  UNION { [1..n -> DepthDevices] : n \in 0..MaxDepthDevices }

Signals == {"SIGINT", "SIGTERM"}

NoError == "none"
NoCap == -1

VARIABLES
  token,               \* CYBERWAVE_TOKEN is set
  twin_uuid,           \* CYBERWAVE_TWIN_UUID is set
  is_depth_camera,
  video_device,
  camera_id,
  asset_key,
  client,              \* "none", "connected", "disconnected"
  camera,              \* the twin handle exists
  handlers,            \* signals with _handle_signal installed
  stop_event,          \* the flag of the asyncio.Event
  pending,             \* _handle_signal callbacks scheduled, not yet run
  pc,                  \* position of main()
  cv2_cameras,
  realsense_cameras,
  index,               \* loop variable of the CV2 probe
  cap,                 \* index of the capture handle held, or NoCap
  devices,             \* ctx.devices still to visit
  fallback_candidates,
  fallback_camera_id,
  handling,            \* exceptions whose except block is running
  exc,                 \* exception in flight, or the one that left main()
  caught,              \* exception logged by the outer except
  exit_status,
  log                  \* calls, their outcomes and handler runs, in order

vars == <<token, twin_uuid, is_depth_camera, video_device, camera_id,
          asset_key, client, camera, handlers, stop_event, pending, pc,
          cv2_cameras, realsense_cameras, index, cap, devices,
          fallback_candidates, fallback_camera_id, handling, exc, caught,
          exit_status, log>>

config == <<token, twin_uuid, is_depth_camera, video_device>>
probe == <<cv2_cameras, realsense_cameras, index, cap, devices>>
fallback == <<fallback_candidates, fallback_camera_id>>
session == <<client, camera, handlers>>

Event(e) == [ev |-> e, id |-> NoId]
StartEvent(id) == [ev |-> "start", id |-> id]

\* --------------------------------------------------- reading the call log
Count(e) == Cardinality({i \in 1..Len(log) : log[i].ev = e})

IsStart(x) == x.ev = "start"
IsResult(x) == x.ev \in {"start_ok", "start_fail"}

\* the start_streaming calls and their outcomes, in call order
StartCalls == SelectSeq(log, IsStart)
StartResults == SelectSeq(log, IsResult)

PrimaryFailed == Len(StartResults) >= 1 /\ StartResults[1].ev = "start_fail"
PrimarySucceeded == Len(StartResults) >= 1 /\ StartResults[1].ev = "start_ok"
FallbackFailed == Len(StartResults) = 2 /\ StartResults[2].ev = "start_fail"
StartSucceeded == \E i \in 1..Len(StartResults) : StartResults[i].ev = "start_ok"

\* log[i] happened while a start_streaming call was awaited
DuringStart(i) ==
  \E j \in 1..(i - 1) :
    /\ log[j].ev = "start"
    /\ \A k \in (j + 1)..(i - 1) : log[k].ev = "signal"

SignalDuringStart ==
  \E i \in 1..Len(log) : log[i].ev = "signal" /\ DuringStart(i)

\* position of the first event e in the log, 0 when there is none
First(e) ==
  IF Count(e) = 0 THEN 0
  ELSE CHOOSE i \in 1..Len(log) :
         log[i].ev = e /\ \A j \in 1..(i - 1) : log[j].ev # e

\* _list_cameras has returned to the except block of the primary start
Enumerated ==
  /\ PrimaryFailed
  /\ pc \in {"check_candidates", "fallback_inflight", "wait_call", "waiting",
             "outer_except", "finally", "stop_inflight", "disconnect",
             "raised", "returned"}

\* the fallback decision is behind
Decided == Enumerated /\ pc # "check_candidates"

\* the list the fallback is to use, read off the two returned lists
Relevant == IF is_depth_camera THEN realsense_cameras ELSE cv2_cameras

\* id was built from the string s
BuiltFrom(id, s) ==
  \/ id.tag = "str" /\ id.str = s
  \/ id.tag = "int" /\ IsIntLiteral(s) /\ id.num = IntOf(s)

\* main() is suspended in an await, the loop can run callbacks
Suspended == {"primary_inflight", "fallback_inflight", "waiting", "stop_inflight"}
\* main() is over
Ended == {"exited", "raised", "returned"}

Init ==
  /\ token \in BOOLEAN
  /\ twin_uuid \in BOOLEAN
  /\ is_depth_camera \in BOOLEAN
  /\ video_device \in VideoDevices
  /\ camera_id = NoId
  /\ asset_key = "none"
  /\ client = "none"
  /\ camera = FALSE
  /\ handlers = {}
  /\ stop_event = FALSE
  /\ pending = 0
  /\ pc = "check_token"
  /\ cv2_cameras = <<>>
  /\ realsense_cameras = <<>>
  /\ index = 0
  /\ cap = NoCap
  /\ devices = <<>>
  /\ fallback_candidates = <<>>
  /\ fallback_camera_id = NoId
  /\ handling = <<>>
  /\ exc = NoError
  /\ caught = NoError
  /\ exit_status = 0
  /\ log = <<>>

\* ------------------------------------------------------- main(): start-up
CheckToken ==
  /\ pc = "check_token"
  /\ IF token THEN pc' = "check_twin_uuid" /\ UNCHANGED exit_status
     ELSE pc' = "exited" /\ exit_status' = ExitStatus
  /\ UNCHANGED <<config, camera_id, asset_key, session, stop_event, pending,
                 probe, fallback, handling, exc, caught, log>>

\* a check that logs the error and goes on
CheckTwinUuid_GoesOn ==
  /\ pc = "check_twin_uuid"
  /\ pc' = "read_config"
  /\ UNCHANGED <<config, camera_id, asset_key, session, stop_event, pending,
                 probe, fallback, handling, exc, caught, exit_status, log>>

CheckTwinUuid ==
  /\ pc = "check_twin_uuid"
  /\ IF twin_uuid THEN pc' = "read_config" /\ UNCHANGED exit_status
     ELSE pc' = "exited" /\ exit_status' = ExitStatus
  /\ UNCHANGED <<config, camera_id, asset_key, session, stop_event, pending,
                 probe, fallback, handling, exc, caught, log>>

\* a configuration step that leaves the device string of a depth camera
\* unparsed
ReadConfig_DepthVerbatim ==
  /\ pc = "read_config"
  /\ camera_id' = IF is_depth_camera THEN StrId(video_device)
                  ELSE ParseCameraId(video_device)
  /\ asset_key' = IF is_depth_camera THEN "intel/realsensed455"
                  ELSE "cyberwave/standard-cam"
  /\ pc' = "create_client"
  /\ UNCHANGED <<config, session, stop_event, pending, probe, fallback,
                 handling, exc, caught, exit_status, log>>

ReadConfig ==
  /\ pc = "read_config"
  /\ camera_id' = ParseCameraId(video_device)
  /\ asset_key' = IF is_depth_camera THEN "intel/realsensed455"
                  ELSE "cyberwave/standard-cam"
  /\ pc' = "create_client"
  /\ UNCHANGED <<config, session, stop_event, pending, probe, fallback,
                 handling, exc, caught, exit_status, log>>

CreateClient ==
  /\ pc = "create_client"
  /\ \/ client' = "connected" /\ pc' = "twin" /\ UNCHANGED exc
     \/ exc' = "ClientError" /\ pc' = "raised" /\ UNCHANGED client
  /\ UNCHANGED <<config, camera_id, asset_key, camera, handlers, stop_event,
                 pending, probe, fallback, handling, caught, exit_status, log>>

\* client.twin() moved inside the try block: its error reaches the outer
\* except and the finally block
Twin_InsideTry ==
  /\ pc = "twin"
  /\ \/ camera' = TRUE /\ pc' = "install_handlers" /\ UNCHANGED exc
     \/ exc' = "TwinError" /\ pc' = "outer_except" /\ UNCHANGED camera
  /\ UNCHANGED <<config, camera_id, asset_key, client, handlers, stop_event,
                 pending, probe, fallback, handling, caught, exit_status, log>>

Twin ==
  /\ pc = "twin"
  /\ \/ camera' = TRUE /\ pc' = "install_handlers" /\ UNCHANGED exc
     \/ exc' = "TwinError" /\ pc' = "raised" /\ UNCHANGED camera
  /\ UNCHANGED <<config, camera_id, asset_key, client, handlers, stop_event,
                 pending, probe, fallback, handling, caught, exit_status, log>>

InstallHandlers ==
  /\ pc = "install_handlers"
  /\ stop_event' = FALSE
  /\ handlers' = Signals
  /\ pc' = "primary_call"
  /\ UNCHANGED <<config, camera_id, asset_key, client, camera, pending, probe,
                 fallback, handling, exc, caught, exit_status, log>>

\* --------------------------------------------------------- signal delivery
SignalsSeen == pending + Cardinality({i \in 1..Len(log) : log[i].ev = "signal"})

\* the OS delivers a signal: the loop schedules the callback registered for it,
\* which is the same argument-less _handle_signal for both signals, and runs
\* it when main() is suspended
SignalArrives ==
  /\ handlers # {}
  /\ pc \notin Ended
  /\ SignalsSeen < MaxSignals
  /\ \E sig \in handlers : pending' = pending + 1
  /\ UNCHANGED <<config, camera_id, asset_key, session, stop_event, pc, probe,
                 fallback, handling, exc, caught, exit_status, log>>

\* set() that leaves the flag as it was
SetEvent_Noop(flag) == flag

\* stop_event.set()
SetEvent(flag) == TRUE

\* a handler that cancels the start_streaming call in flight
HandleSignal_Cancels ==
  /\ pc \in Suspended
  /\ pending > 0
  /\ stop_event' = TRUE
  /\ log' = Append(log, Event("signal"))
  /\ pending' = pending - 1
  /\ IF pc \in {"primary_inflight", "fallback_inflight"}
     THEN pc' = "outer_except" /\ exc' = "CancelledError" /\ handling' = <<>>
     ELSE UNCHANGED <<pc, exc, handling>>
  /\ UNCHANGED <<config, camera_id, asset_key, session, probe, fallback,
                 caught, exit_status>>

HandleSignal ==
  /\ pc \in Suspended
  /\ pending > 0
  /\ stop_event' = SetEvent(stop_event)
  /\ log' = Append(log, Event("signal"))
  /\ pending' = pending - 1
  /\ UNCHANGED <<config, camera_id, asset_key, session, pc, probe, fallback,
                 handling, exc, caught, exit_status>>

\* ---------------------------------------------------- main(): primary start
PrimaryCall ==
  /\ pc = "primary_call"
  /\ log' = Append(log, StartEvent(camera_id))
  /\ pc' = "primary_inflight"
  /\ UNCHANGED <<config, camera_id, asset_key, session, stop_event, pending,
                 probe, fallback, handling, exc, caught, exit_status>>

\* a primary start that enumerates the cameras although it succeeded
PrimaryReturns_Enumerates ==
  /\ pc = "primary_inflight"
  /\ log' = log \o <<Event("start_ok"), Event("list")>>
  /\ pc' = "wait_call"
  /\ UNCHANGED <<config, camera_id, asset_key, session, stop_event, pending,
                 probe, fallback, handling, exc, caught, exit_status>>

PrimaryReturns ==
  /\ pc = "primary_inflight"
  /\ log' = Append(log, Event("start_ok"))
  /\ pc' = "wait_call"
  /\ UNCHANGED <<config, camera_id, asset_key, session, stop_event, pending,
                 probe, fallback, handling, exc, caught, exit_status>>

\* an except block that gives up the fallback when shutdown was requested
PrimaryRaises_HonoursFlag ==
  /\ pc = "primary_inflight"
  /\ IF stop_event
     THEN /\ log' = Append(log, Event("start_fail"))
          /\ exc' = "PrimaryError"
          /\ pc' = "outer_except"
          /\ UNCHANGED <<handling, cv2_cameras, realsense_cameras>>
     ELSE /\ handling' = Append(handling, "PrimaryError")
          /\ log' = log \o <<Event("start_fail"), Event("list")>>
          /\ cv2_cameras' = <<>>
          /\ realsense_cameras' = <<>>
          /\ pc' = "cv2_import"
          /\ UNCHANGED exc
  /\ UNCHANGED <<config, camera_id, asset_key, session, stop_event, pending,
                 index, cap, devices, fallback, caught, exit_status>>

\* start_streaming raises: the except block is entered and calls _list_cameras
PrimaryRaises ==
  /\ pc = "primary_inflight"
  /\ handling' = Append(handling, "PrimaryError")
  /\ log' = log \o <<Event("start_fail"), Event("list")>>
  /\ cv2_cameras' = <<>>
  /\ realsense_cameras' = <<>>
  /\ pc' = "cv2_import"
  /\ UNCHANGED <<config, camera_id, asset_key, session, stop_event, pending,
                 index, cap, devices, fallback, exc, caught, exit_status>>

\* ------------------------------------------------ _list_cameras: CV2 probe
Cv2Import ==
  /\ pc = "cv2_import"
  /\ \/ index' = 0 /\ pc' = "cv2_open" /\ UNCHANGED exc
     \/ exc' = "Cv2Error" /\ pc' = "cv2_except" /\ UNCHANGED index
  /\ UNCHANGED <<config, camera_id, asset_key, session, stop_event, pending,
                 cv2_cameras, realsense_cameras, cap, devices, fallback,
                 handling, caught, exit_status, log>>

\* cap = cv2.VideoCapture(index)
Cv2Open ==
  /\ pc = "cv2_open"
  /\ \/ cap' = index /\ pc' = "cv2_check" /\ UNCHANGED exc
     \/ exc' = "Cv2Error" /\ pc' = "cv2_except" /\ UNCHANGED cap
  /\ UNCHANGED <<config, camera_id, asset_key, session, stop_event, pending,
                 cv2_cameras, realsense_cameras, index, devices, fallback,
                 handling, caught, exit_status, log>>

\* if cap.isOpened(): cv2_cameras.append(str(index))
Cv2Check ==
  /\ pc = "cv2_check"
  /\ \/ /\ index < MaxVideoIndex
        /\ cv2_cameras' = Append(cv2_cameras, Str(index))
        /\ UNCHANGED exc
     \/ UNCHANGED <<cv2_cameras, exc>>
     \/ exc' = "Cv2Error" /\ UNCHANGED cv2_cameras
  /\ pc' = "cv2_release"
  /\ UNCHANGED <<config, camera_id, asset_key, session, stop_event, pending,
                 realsense_cameras, index, cap, devices, fallback, handling,
                 caught, exit_status, log>>

\* a release that is skipped when isOpened() raised (no finally clause)
Cv2Release_OnlyOnSuccess ==
  /\ pc = "cv2_release"
  /\ IF exc # NoError THEN pc' = "cv2_except" /\ UNCHANGED <<index, cap>>
     ELSE /\ cap' = NoCap
          /\ IF index + 1 < NumIndices
             THEN pc' = "cv2_open" /\ index' = index + 1
             ELSE pc' = "rs_import" /\ UNCHANGED index
  /\ UNCHANGED <<config, camera_id, asset_key, session, stop_event, pending,
                 cv2_cameras, realsense_cameras, devices, fallback, handling,
                 exc, caught, exit_status, log>>

\* finally: cap.release(), then the next index, the end of the loop, or the
\* except block when isOpened() raised
Cv2Release ==
  /\ pc = "cv2_release"
  /\ cap' = NoCap
  /\ IF exc # NoError THEN pc' = "cv2_except" /\ UNCHANGED index
     ELSE IF index + 1 < NumIndices THEN pc' = "cv2_open" /\ index' = index + 1
     ELSE pc' = "rs_import" /\ UNCHANGED index
  /\ UNCHANGED <<config, camera_id, asset_key, session, stop_event, pending,
                 cv2_cameras, realsense_cameras, devices, fallback, handling,
                 exc, caught, exit_status, log>>

\* except Exception: logger.exception(...)
Cv2Except ==
  /\ pc = "cv2_except"
  /\ exc' = NoError
  /\ pc' = "rs_import"
  /\ UNCHANGED <<config, camera_id, asset_key, session, stop_event, pending,
                 probe, fallback, handling, caught, exit_status, log>>

\* ------------------------------------------ _list_cameras: RealSense probe
RsImport ==
  /\ pc = "rs_import"
  /\ \/ pc' = "rs_context" /\ UNCHANGED exc
     \/ exc' = "RsError" /\ pc' = "rs_except"
  /\ UNCHANGED <<config, camera_id, asset_key, session, stop_event, pending,
                 probe, fallback, handling, caught, exit_status, log>>

\* ctx = rs.context(); ctx.devices
RsContext ==
  /\ pc = "rs_context"
  /\ \/ \E ds \in DeviceLists :
          /\ devices' = ds
          /\ pc' = IF ds = <<>> THEN "list_return" ELSE "rs_device"
          /\ UNCHANGED exc
     \/ exc' = "RsError" /\ pc' = "rs_except" /\ UNCHANGED devices
  /\ UNCHANGED <<config, camera_id, asset_key, session, stop_event, pending,
                 cv2_cameras, realsense_cameras, index, cap, fallback,
                 handling, caught, exit_status, log>>

\* one iteration of `for device in ctx.devices`
RsDevice ==
  /\ pc = "rs_device"
  /\ \/ /\ realsense_cameras' =
             Append(realsense_cameras,
                    IF Head(devices).serial # <<>> THEN Head(devices).serial
                    ELSE Head(devices).name)
        /\ devices' = Tail(devices)
        /\ pc' = IF Tail(devices) = <<>> THEN "list_return" ELSE "rs_device"
        /\ UNCHANGED exc
     \/ /\ exc' = "RsError"
        /\ pc' = "rs_except"
        /\ UNCHANGED <<realsense_cameras, devices>>
  /\ UNCHANGED <<config, camera_id, asset_key, session, stop_event, pending,
                 cv2_cameras, index, cap, fallback, handling, caught,
                 exit_status, log>>

RsExcept ==
  /\ pc = "rs_except"
  /\ exc' = NoError
  /\ pc' = "list_return"
  /\ UNCHANGED <<config, camera_id, asset_key, session, stop_event, pending,
                 probe, fallback, handling, caught, exit_status, log>>

\* --------------------------------------------------- main(): the fallback
\* realsense_cameras if is_depth_camera else cv2_cameras
FallbackCandidates(depth, cv2, rs) == IF depth THEN rs ELSE cv2

\* the last candidate instead of the first
FallbackCameraId_Last(depth, candidates) ==
  IF depth THEN StrId(candidates[Len(candidates)])
  ELSE ParseCameraId(candidates[Len(candidates)])

\* every candidate parsed, depth serials included
FallbackCameraId_Parsed(depth, candidates) == ParseCameraId(candidates[1])

\* a standard candidate taken one index too low
FallbackCameraId_OffByOne(depth, candidates) ==
  IF depth THEN StrId(candidates[1])
  ELSE IntId(ParseCameraId(candidates[1]).num - 1)

\* fallback_candidates[0], parsed for a standard camera only
FallbackCameraId(depth, candidates) ==
  IF depth THEN StrId(candidates[1]) ELSE ParseCameraId(candidates[1])

\* a new error in place of the one being handled
Reraise_New(stack) == "NoCandidatesError"

\* a bare `raise` re-raises the exception being handled
Reraise(stack) == stack[Len(stack)]

\* return cv2_cameras, realsense_cameras: the frame of _list_cameras and its
\* other locals are gone, and the caller selects its list
ListReturn ==
  /\ pc = "list_return"
  /\ fallback_candidates' =
       FallbackCandidates(is_depth_camera, cv2_cameras, realsense_cameras)
  /\ index' = 0
  /\ devices' = <<>>
  /\ pc' = "check_candidates"
  /\ UNCHANGED <<config, camera_id, asset_key, session, stop_event, pending,
                 cv2_cameras, realsense_cameras, cap, fallback_camera_id,
                 handling, exc, caught, exit_status, log>>

\* if not fallback_candidates: raise
NoCandidates ==
  /\ pc = "check_candidates"
  /\ fallback_candidates = <<>>
  /\ exc' = Reraise(handling)
  /\ handling' = SubSeq(handling, 1, Len(handling) - 1)
  /\ pc' = "outer_except"
  /\ UNCHANGED <<config, camera_id, asset_key, session, stop_event, pending,
                 probe, fallback, caught, exit_status, log>>

FallbackCall ==
  /\ pc = "check_candidates"
  /\ fallback_candidates # <<>>
  /\ fallback_camera_id' = FallbackCameraId(is_depth_camera, fallback_candidates)
  /\ log' = Append(log, StartEvent(fallback_camera_id'))
  /\ pc' = "fallback_inflight"
  /\ UNCHANGED <<config, camera_id, asset_key, session, stop_event, pending,
                 probe, fallback_candidates, handling, exc, caught,
                 exit_status>>

FallbackReturns ==
  /\ pc = "fallback_inflight"
  /\ log' = Append(log, Event("start_ok"))
  /\ handling' = SubSeq(handling, 1, Len(handling) - 1)
  /\ pc' = "wait_call"
  /\ UNCHANGED <<config, camera_id, asset_key, session, stop_event, pending,
                 probe, fallback, exc, caught, exit_status>>

FallbackRaises ==
  /\ pc = "fallback_inflight"
  /\ log' = Append(log, Event("start_fail"))
  /\ exc' = "FallbackError"
  /\ handling' = SubSeq(handling, 1, Len(handling) - 1)
  /\ pc' = "outer_except"
  /\ UNCHANGED <<config, camera_id, asset_key, session, stop_event, pending,
                 probe, fallback, caught, exit_status>>

\* ------------------------------------------------ main(): wait and teardown
\* await stop_event.wait(): returns at once when the flag is set
WaitCall ==
  /\ pc = "wait_call"
  /\ log' = Append(log, Event("wait"))
  /\ pc' = IF stop_event THEN "finally" ELSE "waiting"
  /\ UNCHANGED <<config, camera_id, asset_key, session, stop_event, pending,
                 probe, fallback, handling, exc, caught, exit_status>>

\* a wait that also ends on a timeout
WaitReturns_Timeout ==
  /\ pc = "waiting"
  /\ pc' = "finally"
  /\ UNCHANGED <<config, camera_id, asset_key, session, stop_event, pending,
                 probe, fallback, handling, exc, caught, exit_status, log>>

WaitReturns ==
  /\ pc = "waiting"
  /\ stop_event
  /\ pc' = "finally"
  /\ UNCHANGED <<config, camera_id, asset_key, session, stop_event, pending,
                 probe, fallback, handling, exc, caught, exit_status, log>>

\* an except block that returns without the finally block
OuterExcept_Returns ==
  /\ pc = "outer_except"
  /\ caught' = exc
  /\ exc' = NoError
  /\ pc' = "returned"
  /\ UNCHANGED <<config, camera_id, asset_key, session, stop_event, pending,
                 probe, fallback, handling, exit_status, log>>

\* an except block followed by the wait for the shutdown signal
OuterExcept_Waits ==
  /\ pc = "outer_except"
  /\ caught' = exc
  /\ exc' = NoError
  /\ pc' = "wait_call"
  /\ UNCHANGED <<config, camera_id, asset_key, session, stop_event, pending,
                 probe, fallback, handling, exit_status, log>>

\* except Exception: logger.exception("Camera streaming failed")
OuterExcept ==
  /\ pc = "outer_except"
  /\ caught' = exc
  /\ exc' = NoError
  /\ pc' = "finally"
  /\ UNCHANGED <<config, camera_id, asset_key, session, stop_event, pending,
                 probe, fallback, handling, exit_status, log>>

\* finally: await camera.stop_streaming()
FinallyStop ==
  /\ pc = "finally"
  /\ log' = Append(log, Event("stop"))
  /\ pc' = "stop_inflight"
  /\ UNCHANGED <<config, camera_id, asset_key, session, stop_event, pending,
                 probe, fallback, handling, exc, caught, exit_status>>

StopReturns ==
  /\ pc = "stop_inflight"
  /\ pc' = "disconnect"
  /\ UNCHANGED <<config, camera_id, asset_key, session, stop_event, pending,
                 probe, fallback, handling, exc, caught, exit_status, log>>

\* nothing in the finally block catches it: it leaves main()
StopRaises ==
  /\ pc = "stop_inflight"
  /\ exc' = "StopError"
  /\ pc' = "raised"
  /\ UNCHANGED <<config, camera_id, asset_key, session, stop_event, pending,
                 probe, fallback, handling, caught, exit_status, log>>

\* client.disconnect()
Disconnect ==
  /\ pc = "disconnect"
  /\ log' = Append(log, Event("disconnect"))
  /\ \/ client' = "disconnected" /\ pc' = "returned" /\ UNCHANGED exc
     \/ exc' = "DisconnectError" /\ pc' = "raised" /\ UNCHANGED client
  /\ UNCHANGED <<config, camera_id, asset_key, camera, handlers, stop_event,
                 pending, probe, fallback, handling, caught, exit_status>>

\* ------------------------------------------------------------ specification
\* the steps of main(), the calls it awaits included
MainStep ==
  \/ CheckToken \/ CheckTwinUuid \/ ReadConfig \/ CreateClient \/ Twin
  \/ InstallHandlers \/ PrimaryCall \/ PrimaryReturns \/ PrimaryRaises
  \/ Cv2Import \/ Cv2Open \/ Cv2Check \/ Cv2Release \/ Cv2Except
  \/ RsImport \/ RsContext \/ RsDevice \/ RsExcept
  \/ ListReturn \/ NoCandidates \/ FallbackCall \/ FallbackReturns
  \/ FallbackRaises \/ WaitCall \/ WaitReturns \/ OuterExcept
  \/ FinallyStop \/ StopReturns \/ StopRaises \/ Disconnect

Next == MainStep \/ SignalArrives \/ HandleSignal

Spec == Init /\ [][Next]_vars

\* the event loop keeps running main() and the pending callbacks
FairSpec == Spec /\ WF_vars(MainStep) /\ WF_vars(HandleSignal)

\* ----------------------------------------------------------------- claims

\* C1: in every run that reaches the first start_streaming call,
\* stop_streaming is invoked exactly once before main() ends (never twice at
\* any point), whether a start succeeded and a signal arrived, the primary
\* start failed with no candidate, or the fallback start failed too.
C1_StopExactlyOnce ==
  /\ Count("stop") <= 1
  /\ (pc \in Ended /\ Count("start") >= 1) => Count("stop") = 1

\* main() has ended after the fallback start failed too
C1_Witness ==
  /\ pc = "returned"
  /\ FallbackFailed
  /\ Count("stop") = 1

\* C2: when the primary start failed and the list selected by
\* is_depth_camera is non-empty, exactly one further start_streaming call is
\* made, built from element 0 of that list, and a run never makes more than
\* two start_streaming calls.
C2_OneFallbackFromFirst ==
  /\ Len(StartCalls) <= 2
  /\ (Decided /\ Relevant # <<>>) =>
       /\ Len(StartCalls) = 2
       /\ BuiltFrom(StartCalls[2].id, Relevant[1])
       /\ \A i \in 2..Len(Relevant) :
            Relevant[i] # Relevant[1] => ~BuiltFrom(StartCalls[2].id, Relevant[i])

\* the fallback ran with two different candidates listed
C2_Witness ==
  /\ Decided
  /\ Len(Relevant) = 2
  /\ Relevant[1] # Relevant[2]
  /\ Len(StartCalls) = 2
  /\ pc \in Ended

\* C3: when the primary start failed and the selected list is empty, no
\* second start_streaming call is made and the error that leaves the
\* fallback block, the one the outer except receives, is the error of the
\* primary start.
C3_OriginalErrorPropagates ==
  (Decided /\ Relevant = <<>>) =>
    /\ Len(StartCalls) = 1
    /\ pc = "outer_except" => exc = "PrimaryError"
    /\ pc # "outer_except" => caught = "PrimaryError"

\* main() returned after the outer except logged the primary error of a run
\* whose enumeration found no candidate
C3_Witness ==
  /\ Decided
  /\ Relevant = <<>>
  /\ caught = "PrimaryError"
  /\ pc = "returned"

\* C4: when the primary start succeeded, _list_cameras is never called in
\* that run, whatever signals arrive later.
C4_NoEnumerationAfterSuccess ==
  PrimarySucceeded => Count("list") = 0

\* the primary start succeeded and signals arrived before main() returned
C4_Witness ==
  /\ PrimarySucceeded
  /\ Count("signal") = MaxSignals
  /\ pc = "returned"

\* C5: on every exit path of main() after the client was created,
\* client.disconnect() is called exactly once, and after stop_streaming was
\* invoked.
C5_DisconnectOnEveryExit ==
  (pc \in {"raised", "returned"} /\ client # "none") =>
    /\ Count("disconnect") = 1
    /\ First("stop") > 0
    /\ First("stop") < First("disconnect")

\* C6: a failure of stop_streaming during teardown is absorbed: it does not
\* leave main(), and client.disconnect() still runs.
C6_StopFailureAbsorbed ==
  exc = "StopError" =>
    /\ pc # "raised"
    /\ pc \in Ended => Count("disconnect") = 1

\* C7: a signal handled while a start_streaming call is awaited leaves the
\* call in flight and changes nothing but the flag (and the callback queue);
\* every call ends with a result of its own; and the request stays: the flag
\* is set from then on, so that main() never suspends in stop_event.wait().
C7_SignalDoesNotAbortStart ==
  /\ [](SignalDuringStart => (stop_event /\ pc # "waiting"))
  /\ [](pc \notin {"primary_inflight", "fallback_inflight"} =>
          Len(StartResults) = Len(StartCalls))
  /\ [][ ( /\ pc \in {"primary_inflight", "fallback_inflight"}
           /\ Len(log') = Len(log) + 1
           /\ log'[Len(log')].ev = "signal" )
         => ( /\ pc' = pc
              /\ stop_event'
              /\ UNCHANGED <<config, camera_id, asset_key, session, probe,
                             fallback, handling, exc, caught, exit_status>> )
       ]_vars

\* one signal, handled during a start that then succeeded, and main()
\* returned without any other signal
C7_Witness ==
  /\ SignalDuringStart
  /\ StartSucceeded
  /\ SignalsSeen = 1
  /\ Count("stop") = 1
  /\ pc = "returned"

\* C8: whatever the number of handler runs, the flag is set after the first
\* one and stays set, and the run ends with one stop_streaming call and one
\* disconnect call.
C8_HandlerIdempotent ==
  /\ Count("signal") >= 1 => stop_event
  /\ (pc \in Ended /\ Count("signal") >= 1) =>
       (Count("stop") = 1 /\ Count("disconnect") = 1)

\* C9: once a start_streaming call has succeeded and a signal has been
\* delivered, stop_streaming is eventually called and main() eventually
\* returns, unless stop_streaming or disconnect raised.
C9_SignalLeadsToReturn ==
  (StartSucceeded /\ (pending > 0 \/ stop_event)) ~>
    ( /\ Count("stop") = 1
      /\ (pc = "returned" \/ exc \in {"StopError", "DisconnectError"}) )

\* main() returned after a signal ended a successful stream
C9_Witness ==
  /\ StartSucceeded
  /\ Count("signal") >= 1
  /\ First("signal") < First("stop")
  /\ pc = "returned"

\* C10: the fallback start_streaming call gets a depth candidate verbatim as
\* a string, all-digit serials included, and a standard candidate as the
\* result of _parse_camera_id, which is the integer index it was listed for.
C10_DepthVerbatimStandardParsed ==
  (Decided /\ Relevant # <<>> /\ Len(StartCalls) = 2) =>
    LET id == StartCalls[2].id
    IN  IF is_depth_camera
        THEN id.tag = "str" /\ id.str = realsense_cameras[1]
        ELSE /\ id = ParseCameraId(cv2_cameras[1])
             /\ id.tag = "int"
             /\ Str(id.num) = cv2_cameras[1]

\* an all-digit depth serial reached the fallback start as a string
C10_Witness ==
  /\ is_depth_camera
  /\ Decided
  /\ Len(StartCalls) = 2
  /\ IsIntLiteral(realsense_cameras[1])
  /\ StartCalls[2].id = StrId(realsense_cameras[1])

\* ------------------------------------------- _parse_camera_id on its own
\* characters of the strings: digits, signs, blank, underscore, and two
\* characters of paths
Alphabet == {"0", "1", "9", "-", "+", " ", "_", "/", "v"}

Strings == UNION { [1..n -> Alphabet] : n \in 0..MaxLen }

ParseInit ==
  /\ token = TRUE
  /\ twin_uuid = TRUE
  /\ is_depth_camera \in BOOLEAN
  /\ video_device \in Strings
  /\ camera_id = NoId
  /\ asset_key = "none"
  /\ client = "none"
  /\ camera = FALSE
  /\ handlers = {}
  /\ stop_event = FALSE
  /\ pending = 0
  /\ pc = "read_config"
  /\ cv2_cameras = <<>>
  /\ realsense_cameras = <<>>
  /\ index = 0
  /\ cap = NoCap
  /\ devices = <<>>
  /\ fallback_candidates = <<>>
  /\ fallback_camera_id = NoId
  /\ handling = <<>>
  /\ exc = NoError
  /\ caught = NoError
  /\ exit_status = 0
  /\ log = <<>>

\* camera_id = _parse_camera_id(video_device), as main() calls it
ParseSpec == ParseInit /\ [][ReadConfig]_vars

\* the decimal literals of Python, stated on the text: blanks around, one
\* optional sign, digits with single underscores between two digits
IsDigit(c) == c \in DigitChars

NumericCore(core) ==
  LET body == IF core[1] \in {"+", "-"} THEN Tail(core) ELSE core
  IN  /\ body # <<>>
      /\ \A i \in 1..Len(body) :
           \/ IsDigit(body[i])
           \/ /\ body[i] = "_"
              /\ 1 < i
              /\ i < Len(body)
              /\ IsDigit(body[i - 1])
              /\ IsDigit(body[i + 1])

Numeric(s) ==
  \E a, b \in 0..Len(s) :
    /\ a + b < Len(s)
    /\ \A i \in 1..a : s[i] = " "
    /\ \A i \in (Len(s) - b + 1)..Len(s) : s[i] = " "
    /\ s[a + 1] # " "
    /\ s[Len(s) - b] # " "
    /\ NumericCore(SubSeq(s, a + 1, Len(s) - b))

RECURSIVE Pow10(_)
Pow10(k) == IF k = 0 THEN 1 ELSE 10 * Pow10(k - 1)

RECURSIVE PositionalSum(_, _)
PositionalSum(ds, i) ==
  IF i > Len(ds) THEN 0
  ELSE DigitVal(ds[i]) * Pow10(Len(ds) - i) + PositionalSum(ds, i + 1)

\* the integer a numeric text denotes
Denotes(s) ==
  LET ds == SelectSeq(s, IsDigit)
      minus == \E i \in 1..Len(s) : s[i] = "-"
  IN  IF minus THEN 0 - PositionalSum(ds, 1) ELSE PositionalSum(ds, 1)

\* C11: _parse_camera_id never fails; for every numeric string it returns
\* the integer the string denotes, for every other string the string itself,
\* unchanged; and it changes nothing but its result.
C11_ParseTotal ==
  /\ [](pc = "create_client" =>
          /\ camera_id.tag \in {"int", "str"}
          /\ Numeric(video_device) => camera_id = IntId(Denotes(video_device))
          /\ ~Numeric(video_device) => camera_id = StrId(video_device))
  /\ [][pc = "read_config" =>
          UNCHANGED <<config, session, stop_event, pending, probe, fallback,
                      handling, exc, caught, exit_status, log>>]_vars

\* a signed literal with a blank in front was parsed
C11_Witness ==
  /\ pc = "create_client"
  /\ video_device = <<" ", "-", "1">>
  /\ camera_id = IntId(-1)

\* C12: when a probe of _list_cameras raises, at whatever point, the list
\* of its camera class is empty once its except block is left, the probe of
\* one class never touches the list of the other, and _list_cameras goes on
\* to return.
C12_FailedProbeListsNothing ==
  [][ /\ (pc = "cv2_except" /\ pc' # pc) =>
           (cv2_cameras' = <<>> /\ pc' = "rs_import")
      /\ (pc = "rs_except" /\ pc' # pc) =>
           (realsense_cameras' = <<>> /\ pc' = "list_return")
      /\ pc \in {"cv2_import", "cv2_open", "cv2_check", "cv2_release",
                 "cv2_except"} => realsense_cameras' = realsense_cameras
      /\ pc \in {"rs_import", "rs_context", "rs_device", "rs_except"} =>
           cv2_cameras' = cv2_cameras
    ]_vars

\* C13: when CYBERWAVE_TOKEN or CYBERWAVE_TWIN_UUID is missing, the process
\* exits with status 1 before a client is created, before a signal handler
\* is installed and before any _list_cameras, start_streaming or
\* stop_streaming call.
C13_MissingCredentialExits ==
  (~token \/ ~twin_uuid) =>
    /\ client = "none"
    /\ ~camera
    /\ handlers = {}
    /\ log = <<>>
    /\ pc \in {"check_token", "check_twin_uuid", "exited"}
    /\ pc = "exited" => exit_status = ExitStatus

\* the process exited for a missing twin uuid, the token being set
C13_Witness ==
  /\ token
  /\ ~twin_uuid
  /\ pc = "exited"
  /\ exit_status = ExitStatus

\* C14 as stated: every identifier handed to start_streaming is a
\* non-negative integer index or a string.
C14_IndexNonNegative ==
  \A i \in 1..Len(StartCalls) :
    \/ StartCalls[i].id.tag = "str"
    \/ StartCalls[i].id.tag = "int" /\ StartCalls[i].id.num >= 0

\* C14 as amended: every identifier handed to start_streaming is an integer
\* or a string; the primary one is an integer exactly when the configured
\* string is a decimal literal, and then the integer it denotes, negative
\* for a literal with a minus sign; the fallback one is an index in
\* 0 .. NumIndices - 1 for a standard camera and a string for a depth camera.
C14_IdentifierShapes ==
  \A i \in 1..Len(StartCalls) :
    LET id == StartCalls[i].id
    IN  /\ id.tag \in {"int", "str"}
        /\ i = 1 =>
             /\ id.tag = "int" <=> Numeric(video_device)
             /\ id.tag = "int" => id.num = Denotes(video_device)
             /\ id.tag = "str" => id.str = video_device
        /\ (i = 2 /\ ~is_depth_camera) =>
             (id.tag = "int" /\ id.num \in 0..(NumIndices - 1))
        /\ (i = 2 /\ is_depth_camera) => id.tag = "str"

\* a negative primary index was followed by a standard fallback index
C14_Witness ==
  /\ Len(StartCalls) = 2
  /\ ~is_depth_camera
  /\ StartCalls[1].id = IntId(-1)
  /\ StartCalls[2].id = IntId(1)

\* C15 as stated: every stop_streaming call is preceded in the same run by
\* a start_streaming call that succeeded.
C15_StopOnlyAfterSuccess ==
  Count("stop") >= 1 => StartSucceeded

\* C15 as amended: every stop_streaming call is preceded by at least one
\* start_streaming call, all start_streaming calls of the run have ended
\* before it, and it follows either a start that succeeded and the
\* stop_event.wait() after it, or a start failure that the outer except
\* logged.
C15_StopAfterStartAttempts ==
  Count("stop") >= 1 =>
    /\ Len(StartCalls) >= 1
    /\ Len(StartResults) = Len(StartCalls)
    /\ \A i \in 1..Len(log) :
         (IsStart(log[i]) \/ IsResult(log[i]) \/ log[i].ev = "wait") =>
           i < First("stop")
    /\ IF StartSucceeded
       THEN Count("wait") = 1 /\ caught = NoError
       ELSE Count("wait") = 0 /\ caught \in {"PrimaryError", "FallbackError"}

\* stop_streaming was called although the only start failed
C15_Witness ==
  /\ Count("stop") = 1
  /\ Len(StartCalls) = 1
  /\ PrimaryFailed
  /\ pc = "returned"

\* C16: after a start_streaming call succeeded, stop_streaming is called
\* only once the flag is set, and the flag is set only by a run of the signal
\* handler; while main() is suspended in stop_event.wait() with the flag
\* unset, no step takes it out of the wait.
C16_StopOnlyOnSignal ==
  /\ []((StartSucceeded /\ Count("stop") >= 1) =>
          (stop_event /\ First("signal") > 0 /\ First("signal") < First("stop")))
  /\ [](stop_event => Count("signal") >= 1)
  /\ [][(pc = "waiting" /\ ~stop_event) => pc' = "waiting"]_vars

\* stop_streaming is awaited after one signal ended the wait
C16_Witness ==
  /\ StartSucceeded
  /\ pc = "stop_inflight"
  /\ Count("signal") = 1
  /\ First("wait") < First("signal")

\* the start failure is final: no candidate after the primary failure, or
\* the fallback start failed too
Unrecovered ==
  \/ Decided /\ Relevant = <<>>
  \/ FallbackFailed

\* C17: once the start failure is unrecovered, main() never calls
\* stop_event.wait(), the only exception that can leave it is one of
\* stop_streaming or disconnect, and, signals or not, it eventually returns
\* normally unless stop_streaming or disconnect raised.
C17_FailureTearsDownAndReturns ==
  /\ [](Unrecovered =>
          /\ Count("wait") = 0
          /\ pc \notin {"wait_call", "waiting"}
          /\ pc = "raised" => exc \in {"StopError", "DisconnectError"}
          /\ pc = "returned" => exc = NoError)
  /\ (Unrecovered ~>
        (pc = "returned" \/ exc \in {"StopError", "DisconnectError"}))

\* main() returned after a failed fallback start, no signal having arrived
C17_Witness ==
  /\ FallbackFailed
  /\ SignalsSeen = 0
  /\ Count("stop") = 1
  /\ Count("disconnect") = 1
  /\ pc = "returned"

\* C18: in the CV2 probe a capture handle is held only between its creation
\* and the release in the finally clause of the same index, also when
\* isOpened() raised: none is held when the next index is opened, in the
\* except block, in the RealSense probe or after the return, and a handle is
\* created only while none is held.
C18_HandleReleased ==
  /\ [](pc \in {"cv2_check", "cv2_release"} => cap = index)
  /\ [](pc \notin {"cv2_check", "cv2_release"} => cap = NoCap)
  /\ [][(cap' # cap /\ cap' # NoCap) => cap = NoCap]_vars

\* isOpened() raised on the second index, after the first was released, and
\* the finally clause is about to release the handle
C18_Witness ==
  /\ pc = "cv2_release"
  /\ exc = "Cv2Error"
  /\ index = 1
  /\ cap = 1
  /\ cv2_cameras = <<Str(0)>>

\* the handler ran before the primary start_streaming call ended
SignalDuringPrimary ==
  \E i \in 1..Len(log) :
    /\ log[i].ev = "signal"
    /\ \A j \in 1..(i - 1) : ~IsResult(log[j])

\* C19: when the flag was set while the primary start was in flight and that
\* start failed, main() still calls _list_cameras and, with a candidate,
\* still makes the fallback start_streaming call; stop_streaming comes only
\* after the fallback call ended and, if it succeeded, after
\* stop_event.wait() was called.
C19_SignalKeepsFallback ==
  (SignalDuringPrimary /\ PrimaryFailed) =>
    /\ stop_event
    /\ Count("list") = 1
    /\ (Decided /\ Relevant # <<>>) => Len(StartCalls) = 2
    /\ Count("stop") >= 1 =>
         /\ Len(StartResults) = Len(StartCalls)
         /\ \A i \in 1..Len(log) : IsResult(log[i]) => i < First("stop")
         /\ StartSucceeded =>
              (First("wait") > 0 /\ First("wait") < First("stop"))

\* the only signal of the run came during the failing primary start, the
\* fallback start succeeded and main() returned
C19_Witness ==
  /\ SignalDuringPrimary
  /\ PrimaryFailed
  /\ SignalsSeen = 1
  /\ Len(StartResults) = 2
  /\ StartSucceeded
  /\ pc = "returned"

\* C20: the primary start_streaming call gets the parsed configured string
\* whether or not is_depth_camera is set; so for a depth camera whose
\* configured string is a decimal literal and is also the first depth
\* candidate, the primary call gets an integer and the fallback call the
\* string, two identifiers that are not equal.
C20_PrimaryParsedFallbackNot ==
  /\ Len(StartCalls) >= 1 =>
       StartCalls[1].id =
         IF Numeric(video_device) THEN IntId(Denotes(video_device))
         ELSE StrId(video_device)
  /\ ( /\ is_depth_camera
       /\ Len(StartCalls) = 2
       /\ realsense_cameras[1] = video_device
       /\ Numeric(video_device) ) =>
       /\ StartCalls[1].id.tag = "int"
       /\ StartCalls[2].id = StrId(video_device)
       /\ StartCalls[1].id # StartCalls[2].id

\* the serial "012345" went to the primary start as 12345 and to the
\* fallback start as the string
C20_Witness ==
  /\ is_depth_camera
  /\ Len(StartCalls) = 2
  /\ video_device = <<"0", "1", "2", "3", "4", "5">>
  /\ StartCalls[1].id = IntId(12345)
  /\ StartCalls[2].id = StrId(video_device)

====
